---- MODULE Spec2Model ----
(***************************************************************************)
(* A model of src/src/06-objects-tasks.js: the CSS selector builder        *)
(* (CSSPath, CSSCombinedPath, cssSelectorBuilder), the JSON helpers        *)
(* (getJSON, fromJSON) and Rectangle.                                      *)
(*                                                                         *)
(* JavaScript objects live in `heap`, a sequence indexed by reference.     *)
(* A CSSPath's `css` object is a function whose DOMAIN is the set of keys  *)
(* that were assigned; a key that was never assigned reads as undefined.   *)
(* A throwing method is a method whose result carries err # "none".        *)
(***************************************************************************)
EXTENDS Integers, Sequences, FiniteSets, TLC

VARIABLES
  heap,    \* the objects created so far: CSSPath and CSSCombinedPath
  steps,   \* number of creating or mutating operations made so far (bounded)
  ghost,   \* per object: the history of the calls made on it
  last,    \* the most recent operation: what it was called with, what it
           \* returned (ref, str) or threw (err), and the receiver's css and
           \* previous stringify() result before it
  json,    \* a getJSON / fromJSON round trip: the value, the blueprint, the
           \* text and the resulting object
  rect     \* a Rectangle, the last operation on it and what it returned

vars == <<heap, steps, ghost, last, json, rect>>

\* ------------------------------------------------------------------ bounds
\* The number of operations that create or mutate a selector in one run
MaxSteps == 3
\* The number of own fields of a value handed to getJSON
MaxFields == 2
\* The largest width or height given to a Rectangle
MaxSide == 3

\* The values passed to the setters: strings, the empty string included.
Values == {"", "a"}
\* The combinator tokens passed to combine (stored verbatim).
Combinators == {" ", "+"}

\* ------------------------------------------------------- CSSPath (l.114-204)
None == "none"
Duplicate == "Element, id and pseudo-element should not occur more then one time inside the selector"
Order == "Selector parts should be arranged in the following order: element, id, class, attribute, pseudo-class, pseudo-element"

\* checkOrder's list (l.174)
order == <<"element", "id", "class", "attribute", "pseudoClass", "pseudoElement">>

\* order.indexOf(field), counted from 1
indexOf(field) == CHOOSE k \in 1..Len(order) : order[k] = field

\* constructor: this.css = {}
EmptyCss == [k \in {} |-> ""]

\* JavaScript truthiness of this.css[f]: undefined and '' are falsy
Truthy(css, f) == f \in DOMAIN css /\ css[f] # ""

\* this.css[f] = s
Put(css, f, s) == [k \in DOMAIN css \cup {f} |-> IF k = f THEN s ELSE css[k]]

\* A checkOrder that looks only at the category right after `field`
checkOrder_next_only(css, field) ==
  LET k == indexOf(field) + 1
  IN  k <= Len(order) /\ Truthy(css, order[k])

\* checkOrder(field): TRUE when it throws
checkOrder(css, field) ==
  LET prev == \E k \in (indexOf(field) + 1)..Len(order) : Truthy(css, order[k])
  IN  prev

element(css, value) ==
  IF Truthy(css, "element") THEN [css |-> css, err |-> Duplicate]
  ELSE IF checkOrder(css, "element") THEN [css |-> css, err |-> Order]
  ELSE [css |-> Put(css, "element", value), err |-> None]

id(css, value) ==
  IF Truthy(css, "id") THEN [css |-> css, err |-> Duplicate]
  ELSE IF checkOrder(css, "id") THEN [css |-> css, err |-> Order]
  ELSE [css |-> Put(css, "id", "#" \o value), err |-> None]

\* A pseudoElement() that stores the value without the '::' prefix
pseudoElement_no_prefix(css, value) ==
  IF Truthy(css, "pseudoElement") THEN [css |-> css, err |-> Duplicate]
  ELSE IF checkOrder(css, "pseudoElement") THEN [css |-> css, err |-> Order]
  ELSE [css |-> Put(css, "pseudoElement", value), err |-> None]

pseudoElement(css, value) ==
  IF Truthy(css, "pseudoElement") THEN [css |-> css, err |-> Duplicate]
  ELSE IF checkOrder(css, "pseudoElement") THEN [css |-> css, err |-> Order]
  ELSE [css |-> Put(css, "pseudoElement", "::" \o value), err |-> None]

\* A class() that skips the order check
class_no_check(css, value) ==
  LET c1 == IF ~Truthy(css, "class") THEN Put(css, "class", "") ELSE css
  IN  [css |-> Put(c1, "class", c1["class"] \o "." \o value), err |-> None]

\* A class() that appends before it checks the order
class_append_first(css, value) ==
  LET c1 == IF ~Truthy(css, "class") THEN Put(css, "class", "") ELSE css
      c2 == Put(c1, "class", c1["class"] \o "." \o value)
  IN  IF checkOrder(c2, "class") THEN [css |-> c2, err |-> Order]
      ELSE [css |-> c2, err |-> None]

class(css, value) ==
  LET c1 == IF ~Truthy(css, "class") THEN Put(css, "class", "") ELSE css
  IN  IF checkOrder(c1, "class") THEN [css |-> c1, err |-> Order]
      ELSE [css |-> Put(c1, "class", c1["class"] \o "." \o value), err |-> None]

\* An attr() that assigns instead of appending
attr_overwrite(css, value) ==
  LET c1 == IF ~Truthy(css, "attribute") THEN Put(css, "attribute", "") ELSE css
  IN  IF checkOrder(c1, "attribute") THEN [css |-> c1, err |-> Order]
      ELSE [css |-> Put(c1, "attribute", "[" \o value \o "]"), err |-> None]

attr(css, value) ==
  LET c1 == IF ~Truthy(css, "attribute") THEN Put(css, "attribute", "") ELSE css
  IN  IF checkOrder(c1, "attribute") THEN [css |-> c1, err |-> Order]
      ELSE [css |-> Put(c1, "attribute", c1["attribute"] \o "[" \o value \o "]"),
            err |-> None]

pseudoClass(css, value) ==
  LET c1 == IF ~Truthy(css, "pseudoClass") THEN Put(css, "pseudoClass", "") ELSE css
  IN  IF checkOrder(c1, "pseudoClass") THEN [css |-> c1, err |-> Order]
      ELSE [css |-> Put(c1, "pseudoClass", c1["pseudoClass"] \o ":" \o value),
            err |-> None]

\* A stringify() that appends this.css.id without testing it
stringify_id_unguarded(css) ==
  LET r0 == ""
      r1 == IF Truthy(css, "element") THEN r0 \o css["element"] ELSE r0
      r2 == r1 \o (IF "id" \in DOMAIN css THEN css["id"] ELSE "undefined")
      r3 == IF Truthy(css, "class") THEN r2 \o css["class"] ELSE r2
      r4 == IF Truthy(css, "attribute") THEN r3 \o css["attribute"] ELSE r3
      r5 == IF Truthy(css, "pseudoClass") THEN r4 \o css["pseudoClass"] ELSE r4
      r6 == IF Truthy(css, "pseudoElement") THEN r5 \o css["pseudoElement"] ELSE r5
  IN  r6

\* A stringify() that emits the class fragment before the id fragment
stringify_class_first(css) ==
  LET r0 == ""
      r1 == IF Truthy(css, "element") THEN r0 \o css["element"] ELSE r0
      r2 == IF Truthy(css, "class") THEN r1 \o css["class"] ELSE r1
      r3 == IF Truthy(css, "id") THEN r2 \o css["id"] ELSE r2
      r4 == IF Truthy(css, "attribute") THEN r3 \o css["attribute"] ELSE r3
      r5 == IF Truthy(css, "pseudoClass") THEN r4 \o css["pseudoClass"] ELSE r4
      r6 == IF Truthy(css, "pseudoElement") THEN r5 \o css["pseudoElement"] ELSE r5
  IN  r6

stringify(css) ==
  LET r0 == ""
      r1 == IF Truthy(css, "element") THEN r0 \o css["element"] ELSE r0
      r2 == IF Truthy(css, "id") THEN r1 \o css["id"] ELSE r1
      r3 == IF Truthy(css, "class") THEN r2 \o css["class"] ELSE r2
      r4 == IF Truthy(css, "attribute") THEN r3 \o css["attribute"] ELSE r3
      r5 == IF Truthy(css, "pseudoClass") THEN r4 \o css["pseudoClass"] ELSE r4
      r6 == IF Truthy(css, "pseudoElement") THEN r5 \o css["pseudoElement"] ELSE r5
  IN  r6

\* The method named op, applied to css
Method(op, css, value) ==
  CASE op = "element" -> element(css, value)
    [] op = "id" -> id(css, value)
    [] op = "class" -> class(css, value)
    [] op = "attribute" -> attr(css, value)
    [] op = "pseudoClass" -> pseudoClass(css, value)
    [] op = "pseudoElement" -> pseudoElement(css, value)

\* ----------------------------------------------- CSSCombinedPath (l.206-216)
CSSPath(css) == [kind |-> "CSSPath", css |-> css]

CSSCombinedPath(firstSelector, combinator, secondSelector) ==
  [kind |-> "CSSCombinedPath", firstSelector |-> firstSelector,
   combinator |-> combinator, secondSelector |-> secondSelector]

RECURSIVE CSSCombinedPath_stringify(_, _)
\* obj.stringify() for the object at reference r: dynamic dispatch on its class
Obj_stringify(h, r) ==
  IF h[r].kind = "CSSPath" THEN stringify(h[r].css)
  ELSE CSSCombinedPath_stringify(h, r)

\* A CSSCombinedPath.stringify() that does not pad the combinator
CSSCombinedPath_stringify_no_pad(h, r) ==
  Obj_stringify(h, h[r].firstSelector) \o h[r].combinator
    \o Obj_stringify(h, h[r].secondSelector)

CSSCombinedPath_stringify(h, r) ==
  Obj_stringify(h, h[r].firstSelector) \o " " \o h[r].combinator \o " "
    \o Obj_stringify(h, h[r].secondSelector)

\* ---------------------------------------------- cssSelectorBuilder (l.218-247)
\* A constructor that hands out one shared instance once it exists
new_CSSPath_shared(h) ==
  IF h = <<>> THEN [heap |-> Append(h, CSSPath(EmptyCss)), ref |-> Len(h) + 1]
  ELSE [heap |-> [h EXCEPT ![1] = CSSPath(EmptyCss)], ref |-> 1]

\* new CSSPath(): a fresh object at a fresh reference
new_CSSPath(h) == [heap |-> Append(h, CSSPath(EmptyCss)), ref |-> Len(h) + 1]

\* new CSSPath().op(value): the method returns `this`; when it throws, the new
\* object is unreachable and nothing is returned (ref 0)
Builder(h, op, value) ==
  LET n == new_CSSPath(h)
      r == Method(op, n.heap[n.ref].css, value)
  IN  IF r.err = None
      THEN [heap |-> [n.heap EXCEPT ![n.ref].css = r.css], ref |-> n.ref, err |-> None]
      ELSE [heap |-> h, ref |-> 0, err |-> r.err]

\* combine(selector1, combinator, selector2)
combine(h, selector1, combinator, selector2) ==
  [heap |-> Append(h, CSSCombinedPath(selector1, combinator, selector2)),
   ref |-> Len(h) + 1]

\* ------------------------------------------- getJSON / fromJSON (l.41-58)
\* JavaScript values.  A string is a sequence of characters, a text too.
Number(n) == [t |-> "number", n |-> n]
NaN == [t |-> "NaN"]
Str(s) == [t |-> "string", s |-> s]
Bool(b) == [t |-> "boolean", b |-> b]
Null == [t |-> "null"]
Undefined == [t |-> "undefined"]
Function(f) == [t |-> "function", f |-> f]

\* An object: its own enumerable properties <<key, value>> in insertion
\* order, and its prototype (an object, or Null)
Obj(props, proto) == [t |-> "object", props |-> props, proto |-> proto]
\* Object.prototype, which carries the accessor __proto__
ObjectPrototype == [t |-> "Object.prototype"]
ProtoKey == <<"_", "_", "p", "r", "o", "t", "o", "_", "_">>

OwnKeys(o) == {o.props[k][1] : k \in DOMAIN o.props}
OwnIndex(o, key) == CHOOSE k \in DOMAIN o.props : o.props[k][1] = key
OwnValue(o, key) == o.props[OwnIndex(o, key)][2]

\* o[key]: the own property, else the one inherited from the prototype
Get(o, key) ==
  IF key \in OwnKeys(o) THEN OwnValue(o, key)
  ELSE IF o.proto.t = "object" /\ key \in OwnKeys(o.proto) THEN OwnValue(o.proto, key)
  ELSE Undefined

\* Number::toString of an integer
DigitChars == <<"0", "1", "2", "3", "4", "5", "6", "7", "8", "9">>
RECURSIVE Digits(_)
Digits(n) ==
  IF n < 10 THEN <<DigitChars[n + 1]>>
  ELSE Digits(n \div 10) \o <<DigitChars[(n % 10) + 1]>>
NumberToString(n) == IF n < 0 THEN <<"-">> \o Digits(-n) ELSE Digits(n)

\* QuoteJSONString: the quote and the backslash are escaped
RECURSIVE EscapeChars(_)
EscapeChars(s) ==
  IF s = <<>> THEN <<>>
  ELSE (IF Head(s) \in {"\"", "\\"} THEN <<"\\", Head(s)>> ELSE <<Head(s)>>)
         \o EscapeChars(Tail(s))
QuoteJSONString(s) == <<"\"">> \o EscapeChars(s) \o <<"\"">>

\* SerializeJSONProperty of a primitive: the text, or <<>> for a value that
\* JSON.stringify leaves out (undefined, a function)
SerializeJSONProperty(v) ==
  CASE v.t = "null" -> <<"n", "u", "l", "l">>
    [] v.t = "boolean" -> IF v.b THEN <<"t", "r", "u", "e">> ELSE <<"f", "a", "l", "s", "e">>
    [] v.t = "string" -> QuoteJSONString(v.s)
    [] v.t = "number" -> NumberToString(v.n)
    [] v.t = "NaN" -> <<"n", "u", "l", "l">>
    [] OTHER -> <<>>

\* SerializeJSONObject: the members "key":value of the properties that have a
\* text, separated by commas
RECURSIVE SerializeMembers(_, _)
SerializeMembers(props, first) ==
  IF props = <<>> THEN <<>>
  ELSE LET str == SerializeJSONProperty(Head(props)[2])
       IN  IF str = <<>> THEN SerializeMembers(Tail(props), first)
           ELSE (IF first THEN <<>> ELSE <<",">>)
                  \o QuoteJSONString(Head(props)[1]) \o <<":">> \o str
                  \o SerializeMembers(Tail(props), FALSE)

\* JSON.stringify(obj) of an object with primitive fields
JSON_stringify(obj) == <<"{">> \o SerializeMembers(obj.props, TRUE) \o <<"}">>

\* getJSON(obj)
getJSON(obj) == JSON_stringify(obj)

\* ---- JSON.parse of an object with primitive fields.  Every parser returns
\* [ok, val, pos]: whether it matched at position pos, the value, and the
\* position after it.
Fail == [ok |-> FALSE, val |-> Undefined, pos |-> 0]
At(txt, i) == IF i \in DOMAIN txt THEN txt[i] ELSE "EOF"
Matches(txt, i, word) ==
  i + Len(word) - 1 <= Len(txt) /\ SubSeq(txt, i, i + Len(word) - 1) = word

RECURSIVE ScanString(_, _, _)
ScanString(txt, i, acc) ==
  LET c == At(txt, i)
  IN  CASE c = "EOF" -> Fail
        [] c = "\"" -> [ok |-> TRUE, val |-> acc, pos |-> i + 1]
        [] c = "\\" -> IF At(txt, i + 1) \in {"\"", "\\", "/"}
                       THEN ScanString(txt, i + 2, Append(acc, At(txt, i + 1)))
                       ELSE Fail
        [] OTHER -> ScanString(txt, i + 1, Append(acc, c))

ParseString(txt, i) == IF At(txt, i) = "\"" THEN ScanString(txt, i + 1, <<>>) ELSE Fail

DigitValue(c) == (CHOOSE k \in DOMAIN DigitChars : DigitChars[k] = c) - 1
IsDigit(c) == \E k \in DOMAIN DigitChars : DigitChars[k] = c

RECURSIVE ScanDigits(_, _, _)
ScanDigits(txt, i, acc) ==
  IF IsDigit(At(txt, i)) THEN ScanDigits(txt, i + 1, 10 * acc + DigitValue(At(txt, i)))
  ELSE [ok |-> TRUE, val |-> acc, pos |-> i]

\* An integer: an optional minus, then 0 or a digit 1-9 and more digits
ParseNumber(txt, i) ==
  LET neg == At(txt, i) = "-"
      j == IF neg THEN i + 1 ELSE i
      d == IF At(txt, j) = "0" THEN [ok |-> TRUE, val |-> 0, pos |-> j + 1]
           ELSE IF IsDigit(At(txt, j)) THEN ScanDigits(txt, j, 0)
           ELSE Fail
  IN  IF d.ok THEN [ok |-> TRUE, val |-> Number(IF neg THEN -d.val ELSE d.val), pos |-> d.pos]
      ELSE Fail

ParseValue(txt, i) ==
  CASE At(txt, i) = "\"" ->
         LET s == ParseString(txt, i)
         IN  IF s.ok THEN [ok |-> TRUE, val |-> Str(s.val), pos |-> s.pos] ELSE Fail
    [] Matches(txt, i, <<"t", "r", "u", "e">>) -> [ok |-> TRUE, val |-> Bool(TRUE), pos |-> i + 4]
    [] Matches(txt, i, <<"f", "a", "l", "s", "e">>) -> [ok |-> TRUE, val |-> Bool(FALSE), pos |-> i + 5]
    [] Matches(txt, i, <<"n", "u", "l", "l">>) -> [ok |-> TRUE, val |-> Null, pos |-> i + 4]
    [] OTHER -> ParseNumber(txt, i)

\* CreateDataProperty(props, key, v): a repeated key keeps its place and
\* takes the later value
Define(props, key, v) ==
  IF \E k \in DOMAIN props : props[k][1] = key
  THEN [k \in DOMAIN props |-> IF props[k][1] = key THEN <<key, v>> ELSE props[k]]
  ELSE Append(props, <<key, v>>)

RECURSIVE ParseMembers(_, _, _)
ParseMembers(txt, i, props) ==
  LET key == ParseString(txt, i)
      v == IF key.ok /\ At(txt, key.pos) = ":" THEN ParseValue(txt, key.pos + 1) ELSE Fail
  IN  IF ~v.ok THEN Fail
      ELSE LET ps == Define(props, key.val, v.val)
           IN  CASE At(txt, v.pos) = "," -> ParseMembers(txt, v.pos + 1, ps)
                 [] At(txt, v.pos) = "}" -> [ok |-> TRUE, val |-> ps, pos |-> v.pos + 1]
                 [] OTHER -> Fail

\* JSON.parse(text): [ok, val]; ~ok is a SyntaxError
JSON_parse(txt) ==
  LET r == IF At(txt, 1) # "{" THEN Fail
           ELSE IF At(txt, 2) = "}" THEN [ok |-> TRUE, val |-> <<>>, pos |-> 3]
           ELSE ParseMembers(txt, 2, <<>>)
  IN  IF r.ok /\ r.pos = Len(txt) + 1
      THEN [ok |-> TRUE, val |-> Obj(r.val, ObjectPrototype)]
      ELSE [ok |-> FALSE, val |-> Undefined]

\* Object.create(proto)
Object_create(proto) == Obj(<<>>, proto)

\* target[key] = v, as Object.assign does it ([[Set]]).  While the prototype
\* chain of the target reaches Object.prototype the key __proto__ runs its
\* accessor: null replaces the prototype, any other primitive is ignored.
Set(target, key, v) ==
  IF key = ProtoKey /\ key \notin OwnKeys(target) /\ target.proto.t = "object"
  THEN IF v.t = "null" THEN [target EXCEPT !.proto = Null] ELSE target
  ELSE [target EXCEPT !.props = Define(target.props, key, v)]

\* Object.assign(target, source): the own enumerable properties of source,
\* in order
RECURSIVE AssignProps(_, _)
AssignProps(target, props) ==
  IF props = <<>> THEN target
  ELSE AssignProps(Set(target, Head(props)[1], Head(props)[2]), Tail(props))
Object_assign(target, source) == AssignProps(target, source.props)

\* A fromJSON that returns the parsed data without the blueprint behind it
fromJSON_no_create(proto, text) ==
  LET parsed == JSON_parse(text)
  IN  IF parsed.ok THEN [err |-> None, obj |-> parsed.val]
      ELSE [err |-> "SyntaxError", obj |-> Undefined]

\* fromJSON(proto, json): the new object, or the SyntaxError of JSON.parse
fromJSON(proto, text) ==
  LET parsed == JSON_parse(text)
  IN  IF parsed.ok
      THEN [err |-> None, obj |-> Object_assign(Object_create(proto), parsed.val)]
      ELSE [err |-> "SyntaxError", obj |-> Undefined]

\* ---- the inputs of a round trip
Keys == {<<"a">>, <<"b">>, ProtoKey}
FieldValues ==
  {Number(0), Number(-3), Number(42), NaN, Str(<<>>), Str(<<"a", "\"">>),
   Str(<<"\\">>), Bool(TRUE), Bool(FALSE), Null, Undefined, Function("f")}

\* The flat records of at most MaxFields fields: distinct keys, any order
RECURSIVE FlatRecords(_)
FlatRecords(n) ==
  IF n = 0 THEN {<<>>}
  ELSE LET shorter == FlatRecords(n - 1)
       IN  shorter \cup
           {Append(r, <<k, v>>) :
              r \in {s \in shorter : Len(s) = n - 1},
              k \in Keys, v \in FieldValues}

Distinct(props) == \A j, k \in DOMAIN props : j # k => props[j][1] # props[k][1]

\* The blueprints: ordinary objects whose members are writable data
\* properties, a method among them
Blueprints ==
  {Obj(<<>>, ObjectPrototype),
   Obj(<<<<<<"g">>, Function("getArea")>>>>, ObjectPrototype),
   Obj(<<<<<<"a">>, Number(1)>>, <<<<"g">>, Function("getArea")>>>>, ObjectPrototype)}

NoJson == [pc |-> "idle", v |-> Undefined, p |-> Undefined, text |-> <<>>,
           res |-> [err |-> None, obj |-> Undefined]]

\* ------------------------------------------------------ Rectangle (l.24-29)
\* new Rectangle(width, height): the fields this.width and this.height, and
\* the scope that the arrow function getArea closes over (the parameters)
Rectangle(width, height) ==
  [width |-> width, height |-> height,
   scope |-> [width |-> width, height |-> height]]

\* A getArea that multiplies the constructor's parameters
getArea_of_parameters(r) == r.scope.width * r.scope.height

\* r.getArea(): () => this.width * this.height
getArea(r) == r.width * r.height

\* The widths and heights: small integers, zero and a negative one included
Sides == -1..MaxSide

NoRect == [op |-> "none", obj |-> Rectangle(0, 0), ret |-> 0, pre |-> Rectangle(0, 0)]

\* ------------------------------------------------------------ call history
\* Categories that the specification allows once per instance
Unique == {"element", "id", "pseudoElement"}

\* The history of an object on which nothing was called yet.  `writes` lists
\* the successful calls <<category, value>> in call order.  `valid` says that
\* every call made so far arrived in non-decreasing precedence order without
\* repeating a Unique category; `n`, `hi` and `uniq` are the number of calls,
\* the highest category and the Unique categories called so far (kept only
\* while valid).
NoHistory == [writes |-> <<>>, valid |-> TRUE, n |-> 0, hi |-> 0, uniq |-> {}]

Record(g, op, value, err) ==
  LET k == indexOf(op)
      stillValid == g.valid /\ k >= g.hi /\ op \notin g.uniq
  IN  [writes |-> IF err = None THEN Append(g.writes, <<op, value>>) ELSE g.writes,
       valid |-> stillValid,
       n |-> IF stillValid THEN g.n + 1 ELSE 0,
       hi |-> IF stillValid THEN k ELSE 0,
       uniq |-> IF stillValid THEN g.uniq \cup ({op} \cap Unique) ELSE {}]

Paths(h) == {i \in DOMAIN h : h[i].kind = "CSSPath"}
Combined(h) == {i \in DOMAIN h : h[i].kind = "CSSCombinedPath"}

NoLast ==
  [kind |-> "init", op |-> "", inst |-> 0, value |-> "", err |-> None,
   ref |-> 0, str |-> "", before |-> "", pre |-> EmptyCss]

\* ------------------------------------------------------------------ actions
Init ==
  /\ heap = <<>>
  /\ steps = 0
  /\ ghost = <<>>
  /\ last = NoLast
  /\ json = NoJson
  /\ rect = NoRect

\* builder.op(value)
BuilderCall(op, value) ==
  /\ steps < MaxSteps
  /\ LET b == Builder(heap, op, value)
     IN  /\ heap' = b.heap
         /\ ghost' = IF b.err = None
                     THEN Append(ghost, Record(NoHistory, op, value, b.err))
                     ELSE ghost
         /\ last' = [kind |-> "builder", op |-> op, inst |-> b.ref, value |-> value,
                     err |-> b.err, ref |-> b.ref, str |-> "", before |-> "",
                     pre |-> EmptyCss]
  /\ steps' = steps + 1
  /\ UNCHANGED <<json, rect>>

BuilderElement == \E v \in Values : BuilderCall("element", v)
BuilderId == \E v \in Values : BuilderCall("id", v)
BuilderClass == \E v \in Values : BuilderCall("class", v)
BuilderAttr == \E v \in Values : BuilderCall("attribute", v)
BuilderPseudoClass == \E v \in Values : BuilderCall("pseudoClass", v)
BuilderPseudoElement == \E v \in Values : BuilderCall("pseudoElement", v)

\* A setter that returns a changed copy and leaves its receiver alone
ChainCall_copy(i, op, value) ==
  /\ steps < MaxSteps
  /\ LET r == Method(op, heap[i].css, value)
         n == Len(heap) + 1
     IN  /\ heap' = IF r.err = None THEN Append(heap, CSSPath(r.css)) ELSE heap
         /\ ghost' = IF r.err = None
                       THEN Append(ghost, Record(ghost[i], op, value, r.err))
                       ELSE ghost
         /\ last' = [kind |-> "call", op |-> op, inst |-> i, value |-> value,
                     err |-> r.err, ref |-> IF r.err = None THEN n ELSE 0,
                     str |-> "", before |-> "", pre |-> heap[i].css]
  /\ steps' = steps + 1
  /\ UNCHANGED <<json, rect>>

\* selector.op(value) on an existing CSSPath i: mutates this.css in place and
\* returns this, or throws
ChainCall(i, op, value) ==
  /\ steps < MaxSteps
  /\ LET r == Method(op, heap[i].css, value)
     IN  /\ heap' = [heap EXCEPT ![i].css = r.css]
         /\ ghost' = [ghost EXCEPT ![i] = Record(ghost[i], op, value, r.err)]
         /\ last' = [kind |-> "call", op |-> op, inst |-> i, value |-> value,
                     err |-> r.err, ref |-> IF r.err = None THEN i ELSE 0,
                     str |-> "", before |-> "", pre |-> heap[i].css]
  /\ steps' = steps + 1
  /\ UNCHANGED <<json, rect>>

CallElement == \E i \in Paths(heap), v \in Values : ChainCall(i, "element", v)
CallId == \E i \in Paths(heap), v \in Values : ChainCall(i, "id", v)
CallClass == \E i \in Paths(heap), v \in Values : ChainCall(i, "class", v)
CallAttr == \E i \in Paths(heap), v \in Values : ChainCall(i, "attribute", v)
CallPseudoClass == \E i \in Paths(heap), v \in Values : ChainCall(i, "pseudoClass", v)
CallPseudoElement == \E i \in Paths(heap), v \in Values : ChainCall(i, "pseudoElement", v)

\* builder.combine(selector1, combinator, selector2) on existing selectors
Combine ==
  /\ steps < MaxSteps
  /\ \E s1 \in DOMAIN heap, s2 \in DOMAIN heap, c \in Combinators :
       LET b == combine(heap, s1, c, s2)
       IN  /\ heap' = b.heap
           /\ ghost' = Append(ghost, NoHistory)
           /\ last' = [kind |-> "combine", op |-> "combine", inst |-> b.ref,
                       value |-> c, err |-> None, ref |-> b.ref, str |-> "",
                       before |-> "", pre |-> EmptyCss]
  /\ steps' = steps + 1
  /\ UNCHANGED <<json, rect>>

\* selector.stringify() on any selector
Stringify ==
  /\ \E i \in DOMAIN heap :
       last' = [kind |-> "stringify", op |-> "stringify", inst |-> i, value |-> "",
                err |-> None, ref |-> 0, str |-> Obj_stringify(heap, i),
                before |-> IF last.kind = "stringify" /\ last.inst = i
                           THEN last.str ELSE Obj_stringify(heap, i),
                pre |-> IF heap[i].kind = "CSSPath" THEN heap[i].css ELSE EmptyCss]
  /\ UNCHANGED <<heap, steps, ghost, json, rect>>

Next ==
  \/ BuilderElement \/ BuilderId \/ BuilderClass
  \/ BuilderAttr \/ BuilderPseudoClass \/ BuilderPseudoElement
  \/ CallElement \/ CallId \/ CallClass
  \/ CallAttr \/ CallPseudoClass \/ CallPseudoElement
  \/ Combine
  \/ Stringify

Spec == Init /\ [][Next]_vars

\* ---- the round trip fromJSON(p, getJSON(v)) over every value and blueprint
InitJSON ==
  /\ heap = <<>>
  /\ steps = 0
  /\ ghost = <<>>
  /\ last = NoLast
  /\ rect = NoRect
  /\ \E v \in {r \in FlatRecords(MaxFields) : Distinct(r)}, p \in Blueprints :
       json = [pc |-> "start", v |-> Obj(v, ObjectPrototype), p |-> p,
               text |-> <<>>, res |-> [err |-> None, obj |-> Undefined]]

\* text = getJSON(v)
GetJSON ==
  /\ json.pc = "start"
  /\ json' = [json EXCEPT !.pc = "serialized", !.text = getJSON(json.v)]
  /\ UNCHANGED <<heap, steps, ghost, last, rect>>

\* res = fromJSON(p, text)
FromJSON ==
  /\ json.pc = "serialized"
  /\ json' = [json EXCEPT !.pc = "done", !.res = fromJSON(json.p, json.text)]
  /\ UNCHANGED <<heap, steps, ghost, last, rect>>

NextJSON == GetJSON \/ FromJSON

SpecJSON == InitJSON /\ [][NextJSON]_vars

\* ---- a Rectangle, the assignments to its fields and its area
InitRect ==
  /\ heap = <<>>
  /\ steps = 0
  /\ ghost = <<>>
  /\ last = NoLast
  /\ json = NoJson
  /\ rect = NoRect

\* r = new Rectangle(w, h)
NewRectangle ==
  /\ \E w \in Sides, h \in Sides :
       rect' = [op |-> "new", obj |-> Rectangle(w, h), ret |-> 0, pre |-> rect.obj]
  /\ UNCHANGED <<heap, steps, ghost, last, json>>

\* r.width = w
SetWidth ==
  /\ rect.op # "none"
  /\ \E w \in Sides :
       rect' = [op |-> "width", obj |-> [rect.obj EXCEPT !.width = w], ret |-> 0,
                pre |-> rect.obj]
  /\ UNCHANGED <<heap, steps, ghost, last, json>>

\* r.height = h
SetHeight ==
  /\ rect.op # "none"
  /\ \E h \in Sides :
       rect' = [op |-> "height", obj |-> [rect.obj EXCEPT !.height = h], ret |-> 0,
                pre |-> rect.obj]
  /\ UNCHANGED <<heap, steps, ghost, last, json>>

\* r.getArea()
GetArea ==
  /\ rect.op # "none"
  /\ rect' = [op |-> "getArea", obj |-> rect.obj, ret |-> getArea(rect.obj),
              pre |-> rect.obj]
  /\ UNCHANGED <<heap, steps, ghost, last, json>>

NextRect == NewRectangle \/ SetWidth \/ SetHeight \/ GetArea

SpecRect == InitRect /\ [][NextRect]_vars

\* ================================================================= claims
\* What the specification says a call writes: the formatted fragment of a
\* category (spec section 4.1)
Fragment(cat, v) ==
  CASE cat = "element" -> v
    [] cat = "id" -> "#" \o v
    [] cat = "class" -> "." \o v
    [] cat = "attribute" -> "[" \o v \o "]"
    [] cat = "pseudoClass" -> ":" \o v
    [] cat = "pseudoElement" -> "::" \o v

\* The fragments of category cat in the call log w, concatenated in call order
RECURSIVE CatFrags(_, _)
CatFrags(w, cat) ==
  IF w = <<>> THEN ""
  ELSE (IF Head(w)[1] = cat THEN Fragment(cat, Head(w)[2]) ELSE "")
         \o CatFrags(Tail(w), cat)

\* The string the specification expects for the call log w
Expected(w) ==
  CatFrags(w, "element") \o CatFrags(w, "id") \o CatFrags(w, "class")
    \o CatFrags(w, "attribute") \o CatFrags(w, "pseudoClass")
    \o CatFrags(w, "pseudoElement")

\* The stored fragment of category f as stringify() observes it
Frag(css, f) == IF Truthy(css, f) THEN css[f] ELSE ""

Cats(w) == {w[k][1] : k \in DOMAIN w}
NonDecreasing(w) ==
  \A j, k \in DOMAIN w : j < k => indexOf(w[j][1]) <= indexOf(w[k][1])

\* Some category strictly after op was written in the log w
LaterWritten(w, op) == \E k \in DOMAIN w : indexOf(w[k][1]) > indexOf(op)

\* The last operation was a setter call on an existing instance
IsCall == last.kind = "call"
\* The successful writes of the receiver before the last setter call
PreWrites ==
  LET w == ghost[last.inst].writes
  IN  IF last.err = None THEN SubSeq(w, 1, Len(w) - 1) ELSE w
\* The last call left every stored fragment of its receiver as it was
Stored_nothing ==
  \A f \in {order[k] : k \in DOMAIN order} :
    Frag(heap[last.inst].css, f) = Frag(last.pre, f)

\* C1: on an instance built by a valid call sequence (non-decreasing
\* precedence order, element, id and pseudoElement at most once), every call
\* was stored and stringify() returns exactly the fragments of the written
\* categories concatenated in the fixed category order.
C1_Stringify_is_concatenation ==
  /\ \A i \in Paths(heap) :
       ghost[i].valid =>
         /\ Len(ghost[i].writes) = ghost[i].n
         /\ stringify(heap[i].css) = Expected(ghost[i].writes)
  /\ (last.kind = "stringify" /\ last.inst \in Paths(heap)
        /\ ghost[last.inst].valid)
       => last.str = Expected(ghost[last.inst].writes)

\* id('a').class('a').class('') was built and stringify() returned '#a.a.'
C1_Witness ==
  /\ last.kind = "stringify"
  /\ last.inst \in Paths(heap)
  /\ ghost[last.inst].valid
  /\ ghost[last.inst].writes = <<<<"id", "a">>, <<"class", "a">>, <<"class", "">>>>
  /\ last.str = "#a.a."

\* A facade call never raises, and neither does a call that keeps the call
\* sequence of its receiver valid
Valid_never_raises ==
  /\ last.kind = "builder" => last.err = None
  /\ (IsCall /\ ghost[last.inst].valid) => last.err = None

\* C2 as stated: a call writing category C after a later category was
\* written raises the OrderError; a valid call sequence never raises.
C2_Original ==
  /\ (IsCall /\ LaterWritten(PreWrites, last.op)) => last.err = Order
  /\ Valid_never_raises

\* C2 amended: a call writing category C after a later category was written
\* always fails and stores nothing; the error is the DuplicateCategoryError
\* when C is an id already written or an element already written with a
\* non-empty value (the duplicate check runs first), the OrderError
\* otherwise.  A valid call sequence never raises.
C2_Order_error ==
  /\ (IsCall /\ LaterWritten(PreWrites, last.op)) =>
       /\ last.err # None
       /\ Stored_nothing
       /\ LET dup == \E k \in DOMAIN PreWrites :
                       /\ PreWrites[k][1] = last.op
                       /\ last.op \in {"element", "id"}
                       /\ Fragment(last.op, PreWrites[k][2]) # ""
          IN  last.err = IF dup THEN Duplicate ELSE Order
  /\ Valid_never_raises

\* class(v) was called after pseudoElement was written and raised the OrderError
C2_Witness ==
  /\ IsCall /\ last.op = "class" /\ last.err = Order
  /\ "pseudoElement" \in Cats(PreWrites)

\* C3 as stated: once element (id, pseudoElement) was written on an instance,
\* another call of it raises the DuplicateCategoryError, whatever the values.
C3_Duplicate_error ==
  (IsCall /\ last.op \in Unique /\ last.op \in Cats(PreWrites))
    => last.err = Duplicate

\* C4: the successful writes of an instance are non-decreasing in the
\* precedence order; a call writing a category strictly before one already
\* written fails and stores nothing.
C4_Writes_non_decreasing ==
  /\ \A i \in Paths(heap) : NonDecreasing(ghost[i].writes)
  /\ (IsCall /\ LaterWritten(PreWrites, last.op)) =>
       /\ last.err # None
       /\ ghost[last.inst].writes = PreWrites
       /\ Stored_nothing

\* id(v) was called after an attribute was written, and failed
C4_Witness ==
  /\ IsCall /\ last.op = "id" /\ last.err # None
  /\ "attribute" \in Cats(PreWrites)
  /\ "id" \notin Cats(PreWrites)

\* C5: the class, attribute and pseudo-class fragments are the fragments of
\* the successful calls concatenated in call order, duplicates kept; an
\* instance on which only class (only attr, only pseudoClass) was called
\* never raised and stringifies to that concatenation.
C5_Accumulation ==
  \A i \in Paths(heap) :
    \A c \in {"class", "attribute", "pseudoClass"} :
      /\ Frag(heap[i].css, c) = CatFrags(ghost[i].writes, c)
      /\ (ghost[i].valid /\ ghost[i].hi = indexOf(c) /\ Cats(ghost[i].writes) = {c})
           => /\ Len(ghost[i].writes) = ghost[i].n
              /\ stringify(heap[i].css) = CatFrags(ghost[i].writes, c)

\* attr('a').attr('a').attr('') was built: '[a][a][]'
C5_Witness ==
  \E i \in Paths(heap) :
    /\ ghost[i].writes = <<<<"attribute", "a">>, <<"attribute", "a">>, <<"attribute", "">>>>
    /\ ghost[i].n = 3
    /\ stringify(heap[i].css) = "[a][a][]"

\* The simple selectors and combinator tokens of the selector at r, read from
\* left to right
RECURSIVE Flatten(_, _)
Flatten(h, r) ==
  IF h[r].kind = "CSSPath" THEN <<stringify(h[r].css)>>
  ELSE Flatten(h, h[r].firstSelector) \o <<h[r].combinator>>
         \o Flatten(h, h[r].secondSelector)

\* The strings of s joined by single spaces
RECURSIVE JoinSpace(_)
JoinSpace(s) ==
  IF Len(s) = 1 THEN s[1] ELSE s[1] \o " " \o JoinSpace(Tail(s))

\* The number of CSSCombinedPath objects nested in the selector at r
RECURSIVE Tokens(_, _)
Tokens(h, r) ==
  IF h[r].kind = "CSSPath" THEN 0
  ELSE 1 + Tokens(h, h[r].firstSelector) + Tokens(h, h[r].secondSelector)

\* C6: stringify() of a combined selector is left.stringify(), one space, the
\* combinator verbatim, one space, right.stringify(), applied recursively: the
\* simple selectors and the tokens from left to right, each pair separated by
\* exactly one space; combine and stringify never raise.
C6_Combined_stringify ==
  /\ \A c \in Combined(heap) :
       /\ Obj_stringify(heap, c) =
            Obj_stringify(heap, heap[c].firstSelector) \o " " \o heap[c].combinator
              \o " " \o Obj_stringify(heap, heap[c].secondSelector)
       /\ Obj_stringify(heap, c) = JoinSpace(Flatten(heap, c))
       /\ Len(Flatten(heap, c)) = 2 * Tokens(heap, c) + 1
  /\ (last.kind = "stringify" /\ last.inst \in Combined(heap)) =>
       /\ last.err = None
       /\ last.str = JoinSpace(Flatten(heap, last.inst))
  /\ last.kind = "combine" =>
       /\ last.err = None
       /\ last.ref = Len(heap)
       /\ heap[last.ref].combinator = last.value

\* combine(a, '+', combine(a, ' ', a)) with a = element('a') was built and
\* stringify() returned 'a + a   a': two padded tokens, three spaces in a row
C6_Witness ==
  /\ last.kind = "stringify"
  /\ last.inst \in Combined(heap)
  /\ heap[last.inst].secondSelector \in Combined(heap)
  /\ heap[last.inst].combinator = "+"
  /\ heap[heap[last.inst].secondSelector].combinator = " "
  /\ last.str = "a + a   a"

\* What C7 says of one step: a facade call returns an instance that did not exist before and leaves
\* every existing object as it was; a call on one instance, successful or
\* failing, leaves every other object as it was, and with it the result of
\* stringify() and the outcome of every later call on it.
C7_Step ==
  /\ last'.kind \in {"builder", "combine"} =>
       /\ last'.ref \notin DOMAIN heap
       /\ last'.ref \in DOMAIN heap'
       /\ \A j \in DOMAIN heap : heap'[j] = heap[j]
  /\ last'.kind = "call" =>
       /\ DOMAIN heap' = DOMAIN heap
       /\ \A j \in DOMAIN heap \ {last'.inst} :
            /\ heap'[j] = heap[j]
            /\ j \in Paths(heap) => stringify(heap'[j].css) = stringify(heap[j].css)
            /\ j \in Paths(heap) =>
                 \A op \in {order[k] : k \in DOMAIN order}, v \in Values :
                   Method(op, heap'[j].css, v) = Method(op, heap[j].css, v)

\* C7, over every step of every behaviour: instances share no state
C7_Instances_independent == [][C7_Step]_vars

\* Two simple selectors exist and the last call was made on the first one
C7_Witness ==
  /\ last.kind = "call"
  /\ last.inst = 1
  /\ Cardinality(Paths(heap)) >= 2

\* C8 as stated: the value of stringify() of a combined selector never changes
\* after combine returned, whatever is done afterwards.
C8_Combined_immutable ==
  [][\A c \in Combined(heap) : Obj_stringify(heap', c) = Obj_stringify(heap, c)]_vars

\* C9: stringify() of a simple selector never raises, returns the same string
\* as the call before it, leaves the css of its receiver as it was, and
\* returns '' when no category holds a value.
C9_Stringify_pure ==
  /\ stringify(EmptyCss) = ""
  /\ \A i \in Paths(heap) :
       (\A f \in DOMAIN heap[i].css : heap[i].css[f] = "") => stringify(heap[i].css) = ""
  /\ (last.kind = "stringify" /\ last.inst \in Paths(heap)) =>
       /\ last.err = None
       /\ last.str = stringify(heap[last.inst].css)
       /\ last.before = last.str
       /\ last.pre = heap[last.inst].css

\* stringify() of element('') returned '', twice in a row
C9_Witness ==
  /\ last.kind = "stringify"
  /\ last.inst \in Paths(heap)
  /\ ghost[last.inst].writes = <<<<"element", "">>>>
  /\ last.str = ""
  /\ last.before = ""

\* The fields <<key, value>> of the value and of the result of the round trip
Fields(o) == {o.props[k] : k \in DOMAIN o.props}
\* The values that JSON text represents as they are
Representable(v) == v.t \in {"string", "boolean", "null", "number"}

ProtoNull(v) ==
  \E f \in Fields(v) : f[1] = ProtoKey /\ f[2].t \in {"null", "NaN"}

C11_Area_on_demand ==
  rect.op = "getArea" =>
    /\ rect.ret = rect.obj.width * rect.obj.height
    /\ rect.obj.width = rect.pre.width
    /\ rect.obj.height = rect.pre.height

\* A rectangle built 1 by 1 got width 3 and height 2, and getArea() returned 6
C11_Witness ==
  /\ rect.op = "getArea"
  /\ rect.obj.scope = [width |-> 1, height |-> 1]
  /\ rect.obj.width = 3
  /\ rect.obj.height = 2
  /\ rect.ret = 6

\* C12: a successful setter call returns its receiver, changed in place: the
\* reference it returns is the instance it was called on, and the fragment
\* it wrote is read through that instance.
C12_Returns_this ==
  (IsCall /\ last.err = None) =>
    /\ last.ref = last.inst
    /\ Frag(heap[last.inst].css, last.op) =
         (IF last.op \in Unique THEN "" ELSE Frag(last.pre, last.op))
           \o Fragment(last.op, last.value)
    /\ ghost[last.inst].writes = Append(PreWrites, <<last.op, last.value>>)

\* s = id('a'), s.class('a') and then class('') on the returned reference:
\* all three writes are on the one instance, which the last call returned
C12_Witness ==
  /\ IsCall /\ last.err = None
  /\ last.ref = last.inst
  /\ ghost[last.inst].writes = <<<<"id", "a">>, <<"class", "a">>, <<"class", "">>>>
  /\ stringify(heap[last.ref].css) = "#a.a."

\* C13: pseudoElement(v) fails exactly when pseudoElement was already written
\* on its receiver, and the error is then the DuplicateCategoryError, never
\* the OrderError: no category comes after pseudoElement.
C13_PseudoElement_never_order ==
  /\ (IsCall /\ last.op = "pseudoElement") =>
       /\ last.err # None <=> "pseudoElement" \in Cats(PreWrites)
       /\ last.err \in {None, Duplicate}
  /\ (last.kind = "builder" /\ last.op = "pseudoElement") => last.err = None

\* pseudoElement('') was written, every other category is unwritten or
\* earlier, and a second pseudoElement('a') raised the DuplicateCategoryError
C13_Witness ==
  /\ IsCall /\ last.op = "pseudoElement" /\ last.value = "a"
  /\ last.err = Duplicate
  /\ PreWrites = <<<<"class", "a">>, <<"pseudoElement", "">>>>
  /\ stringify(heap[last.inst].css) = ".a::"

\* C14 as stated: fromJSON(p, text) is a shallow merge in which the parsed
\* fields win: a key of both p and the parsed data reads as the parsed value,
\* a key of p alone reads as p's value, and the result is a new object.
C14_Shallow_merge ==
  (json.pc = "done" /\ json.res.err = None) =>
    LET parsed == JSON_parse(json.text).val
    IN  /\ \A k \in OwnKeys(json.p) \cap OwnKeys(parsed) :
             Get(json.res.obj, k) = OwnValue(parsed, k)
        /\ \A k \in OwnKeys(json.p) \ OwnKeys(parsed) :
             Get(json.res.obj, k) = OwnValue(json.p, k)
        /\ json.res.obj # json.p

\* What the code reads of this.css: every read is a truthiness test
\* (l.120-177, l.184-201), to which a stored '' is an unwritten category
Norm(css) == [f \in {g \in DOMAIN css : css[g] # ""} |-> css[f]]

\* The calls that can follow on an instance give the same outcome on css c1
\* as on css c2: the same error or none, and the same fragments stored (so
\* the same stringify())
SameNextCalls(c1, c2) ==
  \A op \in {order[k] : k \in DOMAIN order}, v \in Values :
    LET a == Method(op, c1, v)
        b == Method(op, c2, v)
    IN  /\ a.err = b.err
        /\ Norm(a.css) = Norm(b.css)

\* C15: a call that raises is a no-op to every observer.  stringify() of the
\* receiver is what it was before the call, the receiver reads as before
\* (an accumulator that class, attr or pseudoClass set to '' before the
\* failing order check reads as unwritten), and each call that can follow
\* has the outcome it has on the receiver as it was before the failed call.
\* The second conjunct carries this to every later call: on every receiver
\* a call has the outcome it has on what the receiver reads as, so two
\* receivers that read the same keep reading the same call after call.
C15_Failed_call_is_noop ==
  /\ (IsCall /\ last.err # None) =>
       /\ stringify(heap[last.inst].css) = stringify(last.pre)
       /\ Norm(heap[last.inst].css) = Norm(last.pre)
       /\ ghost[last.inst].writes = PreWrites
       /\ SameNextCalls(heap[last.inst].css, last.pre)
  /\ (last.kind \in {"builder", "call"} /\ last.inst \in Paths(heap)) =>
       LET css == heap[last.inst].css
       IN  css # Norm(css) =>
             /\ stringify(css) = stringify(Norm(css))
             /\ SameNextCalls(css, Norm(css))

\* pseudoElement('a') was written, then class('a') raised the OrderError
\* after it had set this.css.class to '': stringify() is still '::a'
C15_Witness ==
  /\ IsCall /\ last.op = "class" /\ last.err = Order
  /\ "class" \notin DOMAIN last.pre
  /\ "class" \in DOMAIN heap[last.inst].css
  /\ heap[last.inst].css["class"] = ""
  /\ stringify(heap[last.inst].css) = "::a"

\* C16 as stated: element and id run the duplicate check before the order
\* check.  A call that repeats a written category after a later category was
\* written raises the DuplicateCategoryError, and element or id raise the
\* OrderError only when the category itself is not yet written.
C16_Duplicate_before_order ==
  (IsCall /\ last.op \in {"element", "id"}) =>
    /\ (last.op \in Cats(PreWrites) /\ LaterWritten(PreWrites, last.op))
         => last.err = Duplicate
    /\ last.err = Order => last.op \notin Cats(PreWrites)

====
